---- MODULE Spec2Model ----
(***************************************************************************)
(* Model of video-processing-system/processing/video_processor.py:         *)
(* the VideoProcessor stream registry, the per-frame effect chain, the     *)
(* sink fan-out with its tracked encoder processes, and stream teardown.   *)
(*                                                                         *)
(* Frames are modelled as terms: a frame records the stream and position   *)
(* it was read at and the sequence of cv2 / model transformations applied  *)
(* to it (the library functions themselves are external).                  *)
(***************************************************************************)
EXTENDS Integers, Sequences, FiniteSets, TLC

\* ------------------------------------------------------------------ bounds
StreamIds == {"s1", "s2"}

Threads == {"t1", "t2"}

\* The thread on which signal handlers run (lines 365-370).
MainThread == "t1"

MaxFrames == 2

MaxProcs == 2

MaxTime == 2

MaxAdds == 2

MaxFaults == 1

\* --------------------------------------------------------------- constants
ProcKinds == <<"hls", "dash">>

ProcKindSet == {"hls", "dash"}

ProcAttrs == ProcKindSet \X StreamIds

StageOrder == <<"blur", "edge_detection", "color_filter", "ml_enhancement">>

NoFrame == [src |-> "none", n |-> 0, reg |-> 0, ops |-> <<>>]

NotFound == [found |-> FALSE]

NoResult == [called |-> FALSE]

Raised == [ok |-> FALSE, frame |-> NoFrame]

\* A thread that is inside no call of remove_stream or shutdown. Inside one,
\* id is the stream being removed, i the index of the attribute in turn, pid
\* the process read from it, sd whether the call is shutdown's, todo the ids
\* of shutdown's list still to be removed, regs the ids registered when
\* shutdown began and gens the number of registrations of each id by then; exc
\* tells whether the thread's last call ended with an exception.
Idle == [pc |-> "idle", id |-> "none", i |-> 0, pid |-> 0, sd |-> FALSE,
         todo |-> << >>, regs |-> {}, gens |-> << >>, exc |-> FALSE]

\* The main thread after the SystemExit of sys.exit(0) (line 367) has left
\* every call it was in: nothing catches it, the thread makes no further call.
Exited == [Idle EXCEPT !.pc = "exited", !.exc = TRUE]

\* The (input_config, output_configs) pairs add_stream is called with.
StreamConfigs ==
  { [input |-> [type |-> "rtmp"],
     outputs |-> << [type |-> "hls"], [type |-> "webrtc"] >>],
    [input |-> [type |-> "file"],
     outputs |-> << [type |-> "webrtc"], [type |-> "hls"], [type |-> "dash"] >>] }

AllConfigs == [blur : BOOLEAN, edge_detection : BOOLEAN,
               color_filter : BOOLEAN, ml_enhancement : BOOLEAN]

DefaultConfig == [blur |-> FALSE, edge_detection |-> FALSE,
                  color_filter |-> FALSE, ml_enhancement |-> FALSE]

\* Blur disabled, edge detection enabled.
EdgeConfig == [blur |-> FALSE, edge_detection |-> TRUE,
               color_filter |-> FALSE, ml_enhancement |-> FALSE]

MainConfigs == {EdgeConfig}

\* What time.time() returns when add_stream is called.
AddTimes == {1}

FaultTokens ==
  { <<"raise", "blur">>, <<"raise", "edge_detection">>, <<"raise", "color_filter">>,
    <<"ml", "fail">>,
    <<"makedirs", "hls">>, <<"makedirs", "dash">>,
    <<"Popen", "hls">>, <<"Popen", "dash">>,
    <<"imencode", "webrtc">>,
    <<"stall", "hls">>, <<"stall", "dash">> }

FaultChoices == {F \in SUBSET FaultTokens : Cardinality(F) <= MaxFaults}

VARIABLES
  config,          \* self.config['processing_effects'][stage]['enabled']
  models,          \* keys of self.models
  gstreamer,       \* GSTREAMER_AVAILABLE
  active_streams,  \* self.active_streams
  keys,            \* list(self.active_streams.keys()): the ids in insertion order
  attrs,           \* the dynamic attributes hls_process_<id>, dash_process_<id>
  procs,           \* every encoder process spawned so far, by pid
  ingest,          \* per stream: position of its ingest (idle, pull loop, push pipeline)
  frame_no,        \* per stream: frames produced by its source so far
  webrtc_sent,     \* per stream: payloads handed to send_to_webrtc_client
  completed,       \* history: frames that completed apply_effects since registration
  gen,             \* history: number of add_stream calls per id
  registered,      \* history: ids added and not removed since
  last,            \* history: the last operation
  fx_in,           \* input frame of the effect-chain harness
  fx_out,          \* result of the last apply_effects call of the harness
  lock,            \* self.lock: "free", or the thread that holds it
  ctl,             \* per calling thread: its position inside remove_stream / shutdown
  inflight,        \* per stream: the process_frame calls that have started
  queue            \* per stream: the tasks created by on_gstreamer_frame

setup == <<config, models, gstreamer>>

harness == <<fx_in, fx_out>>

vars == <<config, models, gstreamer, active_streams, keys, attrs, procs, ingest,
          frame_no, webrtc_sent, completed, gen, registered, last,
          fx_in, fx_out, lock, ctl, inflight, queue>>

\* ----------------------------------------------------------------- helpers
Extend(f, k, v) == [x \in DOMAIN f \cup {k} |-> IF x = k THEN v ELSE f[x]]

Without(f, k) == [x \in DOMAIN f \ {k} |-> f[x]]

Types(output_configs) == [i \in 1..Len(output_configs) |-> output_configs[i].type]

\* ------------------------------------------------------------ effect chain
GaussianBlur(frame) == [frame EXCEPT !.ops = Append(@, "blur")]

EdgeDetection(frame) == [frame EXCEPT !.ops = Append(@, "edge_detection")]

ColorFilter(frame) == [frame EXCEPT !.ops = Append(@, "color_filter")]

apply_ml_enhancement(frame, ml_fail) ==
  IF ml_fail THEN frame
  ELSE [frame EXCEPT !.ops = Append(@, "ml_enhancement")]

\* apply_effects with the colour filter run before the edge detection.
apply_effects_color_first(frame, cfg, mods, faults) ==
  LET f1 == IF cfg.blur THEN GaussianBlur(frame) ELSE frame
      f2 == IF cfg.color_filter THEN ColorFilter(f1) ELSE f1
      f3 == IF cfg.edge_detection THEN EdgeDetection(f2) ELSE f2
      f4 == IF cfg.ml_enhancement /\ "enhancement" \in mods
              THEN apply_ml_enhancement(f3, <<"ml", "fail">> \in faults)
              ELSE f3
      raises == \E s \in {"blur", "edge_detection", "color_filter"} :
                   cfg[s] /\ <<"raise", s>> \in faults
  IN IF raises THEN Raised ELSE [ok |-> TRUE, frame |-> f4]

apply_effects(frame, cfg, mods, faults) ==
  LET f1 == IF cfg.blur THEN GaussianBlur(frame) ELSE frame
      f2 == IF cfg.edge_detection THEN EdgeDetection(f1) ELSE f1
      f3 == IF cfg.color_filter THEN ColorFilter(f2) ELSE f2
      f4 == IF cfg.ml_enhancement /\ "enhancement" \in mods
              THEN apply_ml_enhancement(f3, <<"ml", "fail">> \in faults)
              ELSE f3
      raises == \E s \in {"blur", "edge_detection", "color_filter"} :
                   cfg[s] /\ <<"raise", s>> \in faults
  IN IF raises THEN Raised ELSE [ok |-> TRUE, frame |-> f4]

\* ------------------------------------------------------------------- sinks
\* A sink state is [attrs, procs, sent, raised, blocked, next, pid]: the
\* tracked process attributes, the process table, the payloads handed to the
\* transport hook, whether an exception is propagating out of the sink
\* functions, the process (0: none) at whose stdin the write of line 277 / 303
\* is blocked because the encoder does not read it, the line at which the sink
\* function goes on ("done": it has returned), and the process it has spawned
\* and not yet tracked. A process is alive until it exits and records the
\* signals sent to it and the frames written to it.
NewProc(kind, stream_id, reg) ==
  [kind |-> kind, stream |-> stream_id, gen |-> reg, alive |-> TRUE,
   stdin |-> "open", signals |-> {}, writes |-> <<>>]

output_webrtc(st, stream_id, frame, faults) ==
  IF <<"imencode", "webrtc">> \in faults
    THEN st
    ELSE [st EXCEPT !.sent[stream_id] = Append(@, frame)]

\* A variant that spawns an encoder for every frame.
open_segmented_respawn(st, kind, stream_id, frame, faults) ==
  IF <<"makedirs", kind>> \in faults
    THEN [st EXCEPT !.raised = TRUE]
    ELSE IF <<"Popen", kind>> \in faults
      THEN st
      ELSE [st EXCEPT !.procs = Append(@, NewProc(kind, stream_id, frame.reg)),
                      !.next = "setattr",
                      !.pid = Len(st.procs) + 1]

\* Lines 259-273 (285-299): makedirs, outside the try block; hasattr; Popen
\* when the attribute is missing. An exception of Popen is caught at line 280
\* and ends the sink function.
open_segmented(st, kind, stream_id, frame, faults) ==
  IF <<"makedirs", kind>> \in faults
    THEN [st EXCEPT !.raised = TRUE]
    ELSE IF <<kind, stream_id>> \in DOMAIN st.attrs
      THEN [st EXCEPT !.next = "write"]
    ELSE IF <<"Popen", kind>> \in faults
      THEN st
      ELSE [st EXCEPT !.procs = Append(@, NewProc(kind, stream_id, frame.reg)),
                      !.next = "setattr",
                      !.pid = Len(st.procs) + 1]

\* Line 274 (300): setattr tracks the process that Popen returned.
setattr_segmented(st, kind, stream_id, pid) ==
  [st EXCEPT !.attrs = Extend(@, <<kind, stream_id>>, pid), !.next = "write"]

\* Lines 276-278 (302-304): getattr, write, flush. A missing attribute, a
\* closed stdin and a process that has exited raise an exception, caught at
\* line 280; a write the encoder does not read does not return.
write_segmented(st, kind, stream_id, frame, faults) ==
  LET key == <<kind, stream_id>>
  IN IF key \notin DOMAIN st.attrs
       THEN st
       ELSE
         LET pid == st.attrs[key]
             process == st.procs[pid]
         IN IF process.alive /\ process.stdin = "open"
              THEN IF <<"stall", kind>> \in faults
                     THEN [st EXCEPT !.blocked = pid]
                     ELSE [st EXCEPT !.procs[pid].writes = Append(@, frame)]
              ELSE st

\* Lines 242-247: the sink function of an output is chosen by its type; of
\* output_hls and output_dash this is the part up to Popen.
Dispatch(st, output_config, stream_id, frame, faults) ==
  IF output_config.type = "webrtc" THEN output_webrtc(st, stream_id, frame, faults)
  ELSE IF output_config.type \in ProcKindSet
    THEN open_segmented(st, output_config.type, stream_id, frame, faults)
  ELSE st

\* ---------------------------------------------------------------- registry
add_stream(streams, stream_id, input_config, output_configs, t) ==
  Extend(streams, stream_id,
         [input |-> input_config, outputs |-> output_configs,
          start_time |-> t, frame_count |-> 0])

\* get_stream_stats dividing whenever duration >= 0.
get_stream_stats_ge(streams, stream_id, t) ==
  IF stream_id \notin DOMAIN streams
    THEN NotFound
    ELSE
      LET stream == streams[stream_id]
          duration == t - stream.start_time
      IN [found |-> TRUE,
          stream_id |-> stream_id,
          duration |-> duration,
          frame_count |-> stream.frame_count,
          fps |-> IF duration >= 0
                    THEN [num |-> stream.frame_count, den |-> duration]
                    ELSE [num |-> 0, den |-> 1],
          input_type |-> stream.input.type,
          output_types |-> Types(stream.outputs)]

\* fps is the exact quotient frame_count / duration, kept as a fraction.
get_stream_stats(streams, stream_id, t) ==
  IF stream_id \notin DOMAIN streams
    THEN NotFound
    ELSE
      LET stream == streams[stream_id]
          duration == t - stream.start_time
      IN [found |-> TRUE,
          stream_id |-> stream_id,
          duration |-> duration,
          frame_count |-> stream.frame_count,
          fps |-> IF duration > 0
                    THEN [num |-> stream.frame_count, den |-> duration]
                    ELSE [num |-> 0, den |-> 1],
          input_type |-> stream.input.type,
          output_types |-> Types(stream.outputs)]

\* ----------------------------------------------------------------- history
\* The record of the last call: its name and argument, the ids registered
\* when it was made (all of them for shutdown, else the argument if
\* registered), whether it is a removal that repeats the call before it,
\* whether it has returned and did so normally (for process_frame: whether
\* the effect chain completed), what get_stream_stats returned, and for
\* shutdown the number of registrations of each id when it was called.
Op(name, id, regs, frame, faults, ok, result) ==
  [op |-> name, id |-> id, regs |-> regs,
   repeat |-> (name \in {"remove_stream", "shutdown"}
               /\ last.op = name /\ last.id = id /\ last.done),
   frame |-> frame, faults |-> faults, ok |-> ok, stats |-> result,
   gens |-> << >>, done |-> TRUE]

SinkState ==
  [attrs |-> attrs, procs |-> procs, sent |-> webrtc_sent, raised |-> FALSE,
   blocked |-> 0, next |-> "done", pid |-> 0]

\* A fault is drawn only where the code can meet it: a stage raises only when
\* it is enabled, a sink fails or stalls only when the stream has that sink
\* configured, an encoder spawn fails only when there is a spawn.
Applicable(faults, stream_id) ==
  \A f \in faults :
    /\ f[1] = "raise" => config[f[2]]
    /\ f[1] = "ml" => (config.ml_enhancement /\ "enhancement" \in models)
    /\ f[1] \in {"makedirs", "Popen", "imencode", "stall"} =>
         /\ stream_id \in DOMAIN active_streams
         /\ \E i \in 1..Len(active_streams[stream_id].outputs) :
               active_streams[stream_id].outputs[i].type = f[2]
    /\ f[1] = "Popen" => <<f[2], stream_id>> \notin DOMAIN attrs

\* -------------------------------------------------------------------- Init
InitRegistry ==
  /\ active_streams = << >>
  /\ keys = << >>
  /\ attrs = << >>
  /\ procs = << >>
  /\ ingest = [id \in StreamIds |-> "idle"]
  /\ frame_no = [id \in StreamIds |-> 0]
  /\ webrtc_sent = [id \in StreamIds |-> << >>]
  /\ completed = [id \in StreamIds |-> 0]
  /\ gen = [id \in StreamIds |-> 0]
  /\ registered = {}
  /\ last = [op |-> "init", id |-> "none", regs |-> {}, repeat |-> FALSE,
             frame |-> NoFrame, faults |-> {}, ok |-> FALSE, stats |-> NotFound,
             gens |-> << >>, done |-> TRUE]
  /\ lock = "free"
  /\ ctl = [t \in Threads |-> Idle]
  /\ inflight = [id \in StreamIds |-> << >>]
  /\ queue = [id \in StreamIds |-> << >>]

Init ==
  /\ config \in MainConfigs
  /\ models = {}
  /\ gstreamer \in BOOLEAN
  /\ InitRegistry
  /\ fx_in = NoFrame
  /\ fx_out = NoResult

\* ------------------------------------------------------------------- steps
\* The handlers, taken one step at a time: remove_stream and shutdown between
\* taking the lock, each call on an encoder process and the release of the
\* lock; process_frame between the effect chain, each sink of output_frame
\* and the return to the caller. The steps leave the history variable last to
\* the specification that schedules them.
Sum(f) == f["s1"] + f["s2"]

RemoveAt(s, k) == [j \in 1..(Len(s) - 1) |-> IF j < k THEN s[j] ELSE s[j + 1]]

\* The key of the attribute thread t has reached in the loop of line 326.
AttrOf(t) == <<ProcKinds[ctl[t].i], ctl[t].id>>

\* The frame the source of stream_id produces next.
Sample(stream_id) ==
  [src |-> stream_id, n |-> frame_no[stream_id] + 1, reg |-> gen[stream_id],
   ops |-> << >>]

\* A process_frame call that has started: its frame, its position, the output
\* list read at line 239, the index of the sink in turn, the failures the call
\* has met, and the process it has spawned and not yet tracked or at whose
\* stdin its write is blocked.
NewTask(frame) ==
  [frame |-> frame, pc |-> "effects", outs |-> << >>, i |-> 0,
   faults |-> {}, pid |-> 0]

\* A write (277, 303) into the stdin of process pid has not returned.
WriteInProgress(pid) ==
  \E id \in StreamIds : \E k \in DOMAIN inflight[id] :
     inflight[id][k].pc = "blocked" /\ inflight[id][k].pid = pid

\* A variant in which a task starts while another one of the stream is running.
EventLoopPreempts(stream_id) == TRUE

\* The event loop starts the next task of create_task (145) only when the
\* running one has returned: process_frame (189-196) and the coroutines it
\* awaits contain no point at which they yield to the loop.
EventLoopFree(stream_id) == inflight[stream_id] = << >>

\* t is the value time.time() returns during the call. The lock is taken for
\* the assignment (313) and released after it.
AddStream(stream_id, input_config, output_configs, t) ==
  /\ lock = "free"
  /\ Sum(gen) < MaxAdds
  /\ active_streams' = add_stream(active_streams, stream_id, input_config,
                                  output_configs, t)
  /\ keys' = IF stream_id \in DOMAIN active_streams THEN keys
             ELSE Append(keys, stream_id)
  /\ gen' = [gen EXCEPT ![stream_id] = @ + 1]
  /\ completed' = [completed EXCEPT ![stream_id] = 0]
  /\ registered' = registered \cup {stream_id}
  /\ UNCHANGED <<setup, harness, attrs, procs, ingest, frame_no, webrtc_sent,
                 lock, ctl, inflight, queue>>

\* Line 322, entered by thread t in the state caller: remove_stream has been
\* called and the lock is taken.
EnterRemove(t, stream_id, caller) ==
  /\ lock = "free"
  /\ lock' = t
  /\ ctl' = [ctl EXCEPT ![t] = [caller EXCEPT !.pc = "rm_test", !.id = stream_id]]
  /\ UNCHANGED <<setup, harness, active_streams, keys, registered, attrs,
                 procs, ingest, frame_no, webrtc_sent, completed, gen,
                 inflight, queue>>

\* Thread t calls remove_stream(stream_id).
RemoveBegin(t, stream_id) ==
  /\ ctl[t].pc = "idle"
  /\ EnterRemove(t, stream_id, Idle)

\* The with block ends and remove_stream returns, to shutdown's loop or to
\* its caller.
Returned(t) ==
  IF ctl[t].sd THEN [ctl[t] EXCEPT !.pc = "sd_next", !.id = "none", !.i = 0]
  ELSE Idle

\* remove_stream that erases the entry and forgets the encoder processes.
RemoveTest_keep_procs(t) ==
  /\ ctl[t].pc = "rm_test"
  /\ active_streams' = IF ctl[t].id \in DOMAIN active_streams
                         THEN Without(active_streams, ctl[t].id)
                         ELSE active_streams
  /\ keys' = SelectSeq(keys, LAMBDA x : x # ctl[t].id)
  /\ registered' = registered \ {ctl[t].id}
  /\ lock' = "free"
  /\ ctl' = [ctl EXCEPT ![t] = Returned(t)]
  /\ UNCHANGED <<setup, harness, attrs, procs, ingest, frame_no, webrtc_sent,
                 completed, gen, inflight, queue>>

\* remove_stream without the membership test of line 323: the del raises, the
\* with block releases the lock and the exception reaches the caller.
RemoveTest_unguarded(t) ==
  /\ ctl[t].pc = "rm_test"
  /\ IF ctl[t].id \in DOMAIN active_streams
       THEN /\ active_streams' = Without(active_streams, ctl[t].id)
            /\ keys' = SelectSeq(keys, LAMBDA x : x # ctl[t].id)
            /\ registered' = registered \ {ctl[t].id}
            /\ lock' = lock
            /\ ctl' = [ctl EXCEPT ![t].pc = "rm_attr", ![t].i = 1]
       ELSE /\ lock' = "free"
            /\ ctl' = [ctl EXCEPT ![t] = [Idle EXCEPT !.exc = TRUE]]
            /\ UNCHANGED <<active_streams, keys, registered>>
  /\ UNCHANGED <<setup, harness, attrs, procs, ingest, frame_no, webrtc_sent,
                 completed, gen, inflight, queue>>

\* Lines 323-325: with the lock held the entry is deleted and the loop over
\* the process attributes begins. For an id that is not registered the with
\* block ends at once: the lock is released and the call returns.
RemoveTest(t) ==
  /\ ctl[t].pc = "rm_test"
  /\ IF ctl[t].id \in DOMAIN active_streams
       THEN /\ active_streams' = Without(active_streams, ctl[t].id)
            /\ keys' = SelectSeq(keys, LAMBDA x : x # ctl[t].id)
            /\ registered' = registered \ {ctl[t].id}
            /\ lock' = lock
            /\ ctl' = [ctl EXCEPT ![t].pc = "rm_attr", ![t].i = 1]
       ELSE /\ lock' = "free"
            /\ ctl' = [ctl EXCEPT ![t] = Returned(t)]
            /\ UNCHANGED <<active_streams, keys, registered>>
  /\ UNCHANGED <<setup, harness, attrs, procs, ingest, frame_no, webrtc_sent,
                 completed, gen, inflight, queue>>

\* Lines 326-328: the next attribute of the loop, and the process read from
\* it. After the last attribute the with block ends, the lock is released
\* and remove_stream returns, to shutdown's loop or to its caller.
RemoveNextAttr(t) ==
  /\ ctl[t].pc = "rm_attr"
  /\ IF ctl[t].i > Len(ProcKinds)
       THEN /\ lock' = "free"
            /\ ctl' = [ctl EXCEPT ![t] = Returned(t)]
       ELSE /\ lock' = lock
            /\ ctl' = IF AttrOf(t) \in DOMAIN attrs
                        THEN [ctl EXCEPT ![t].pc = "rm_close",
                                         ![t].pid = attrs[AttrOf(t)]]
                        ELSE [ctl EXCEPT ![t].i = @ + 1]
  /\ UNCHANGED <<setup, harness, active_streams, keys, attrs, procs, ingest,
                 frame_no, webrtc_sent, completed, gen, registered, inflight,
                 queue>>

\* Line 330, process.stdin.close(): it returns only when no write into the
\* same stream is in progress. If it raises, the except clause runs.
RemoveClose(t, raises) ==
  /\ ctl[t].pc = "rm_close"
  /\ ~WriteInProgress(ctl[t].pid)
  /\ procs' = [procs EXCEPT ![ctl[t].pid].stdin = "closed"]
  /\ ctl' = [ctl EXCEPT ![t].pc = IF raises THEN "rm_kill" ELSE "rm_term"]
  /\ UNCHANGED <<setup, harness, active_streams, keys, attrs, ingest, frame_no,
                 webrtc_sent, completed, gen, registered, lock, inflight, queue>>

\* Line 331, process.terminate().
RemoveTerminate(t) ==
  /\ ctl[t].pc = "rm_term"
  /\ procs' = [procs EXCEPT ![ctl[t].pid].signals = @ \cup {"TERM"}]
  /\ ctl' = [ctl EXCEPT ![t].pc = "rm_wait"]
  /\ UNCHANGED <<setup, harness, active_streams, keys, attrs, ingest, frame_no,
                 webrtc_sent, completed, gen, registered, lock, inflight, queue>>

\* Line 332, process.wait(timeout=5): the process has exited or exits within
\* the timeout, or the wait raises TimeoutExpired and the except clause runs.
RemoveWait(t, exits) ==
  /\ ctl[t].pc = "rm_wait"
  /\ IF ~procs[ctl[t].pid].alive \/ exits
       THEN /\ procs' = [procs EXCEPT ![ctl[t].pid].alive = FALSE]
            /\ ctl' = [ctl EXCEPT ![t].pc = "rm_del"]
       ELSE /\ procs' = procs
            /\ ctl' = [ctl EXCEPT ![t].pc = "rm_kill"]
  /\ UNCHANGED <<setup, harness, active_streams, keys, attrs, ingest, frame_no,
                 webrtc_sent, completed, gen, registered, lock, inflight, queue>>

\* Lines 333-334, process.kill() in the bare except clause.
RemoveKill(t) ==
  /\ ctl[t].pc = "rm_kill"
  /\ procs' = [procs EXCEPT ![ctl[t].pid].signals = @ \cup {"KILL"},
                            ![ctl[t].pid].alive = FALSE]
  /\ ctl' = [ctl EXCEPT ![t].pc = "rm_del"]
  /\ UNCHANGED <<setup, harness, active_streams, keys, attrs, ingest, frame_no,
                 webrtc_sent, completed, gen, registered, lock, inflight, queue>>

\* Line 335, delattr; the loop goes on with the next attribute.
RemoveDelattr(t) ==
  /\ ctl[t].pc = "rm_del"
  /\ attrs' = Without(attrs, AttrOf(t))
  /\ ctl' = [ctl EXCEPT ![t].pc = "rm_attr", ![t].i = @ + 1, ![t].pid = 0]
  /\ UNCHANGED <<setup, harness, active_streams, keys, procs, ingest, frame_no,
                 webrtc_sent, completed, gen, registered, lock, inflight, queue>>

\* shutdown iterating over the first key only.
ShutdownBegin_first_only(t) ==
  /\ ctl[t].pc = "idle"
  /\ ctl' = [ctl EXCEPT ![t] =
               [Idle EXCEPT !.pc = "sd_next", !.sd = TRUE,
                            !.todo = IF keys = << >> THEN << >>
                                     ELSE <<Head(keys)>>,
                            !.regs = DOMAIN active_streams, !.gens = gen]]
  /\ UNCHANGED <<setup, harness, active_streams, keys, attrs, procs, ingest,
                 frame_no, webrtc_sent, completed, gen, registered, lock,
                 inflight, queue>>

\* Line 357: thread t calls shutdown(), which copies the list of the ids.
ShutdownBegin(t) ==
  /\ ctl[t].pc = "idle"
  /\ ctl' = [ctl EXCEPT ![t] =
               [Idle EXCEPT !.pc = "sd_next", !.sd = TRUE, !.todo = keys,
                            !.regs = DOMAIN active_streams, !.gens = gen]]
  /\ UNCHANGED <<setup, harness, active_streams, keys, attrs, procs, ingest,
                 frame_no, webrtc_sent, completed, gen, registered, lock,
                 inflight, queue>>

\* Lines 357-360: remove_stream is called for the next id of the copy (it
\* takes the lock, line 322); after
\* the last one the executor, which never holds any work, is shut down and
\* shutdown returns, or the SystemExit of a signal handler that ran during
\* the call leaves it.
ShutdownNext(t) ==
  /\ ctl[t].pc = "sd_next"
  /\ IF ctl[t].todo = << >>
       THEN /\ ctl' = [ctl EXCEPT ![t] = IF ctl[t].exc THEN Exited ELSE Idle]
            /\ UNCHANGED <<setup, harness, active_streams, keys, registered,
                           lock, attrs, procs, ingest, frame_no, webrtc_sent,
                           completed, gen, inflight, queue>>
       ELSE EnterRemove(t, Head(ctl[t].todo),
                        [ctl[t] EXCEPT !.todo = Tail(@)])

\* Lines 365-367: a signal arrives while the main thread is inside
\* remove_stream or shutdown, and signal_handler runs on that thread at the
\* line it has reached (not while it is held inside stdin.close() by a write
\* in progress). Inside remove_stream, from line 323 on, the thread holds the
\* lock: the handler's shutdown() calls remove_stream for a stream still
\* registered (at line 323 the stream being removed is one) and waits for
\* that lock for ever. With no stream registered shutdown() returns and
\* sys.exit(0) raises SystemExit at the line reached: inside the try block
\* (330-332) the bare except of line 333 catches it and the process is killed;
\* elsewhere (323-328, 334, 335) it leaves remove_stream, which releases the
\* lock, and every caller: the thread ends. Between two removals of shutdown
\* the handler's shutdown() removes what is registered by then before
\* SystemExit is raised.
Signal(t) ==
  /\ t = MainThread
  /\ ctl[t].pc \in {"rm_test", "rm_attr", "rm_close", "rm_term", "rm_wait",
                    "rm_kill", "rm_del", "sd_next"}
  /\ ctl[t].pc = "rm_close" => ~WriteInProgress(ctl[t].pid)
  /\ IF ctl[t].pc = "sd_next"
       THEN /\ ctl' = [ctl EXCEPT ![t].todo = keys, ![t].exc = TRUE]
            /\ lock' = lock
     ELSE IF keys # << >>
       THEN /\ ctl' = [ctl EXCEPT ![t].pc = "self_lock"]
            /\ lock' = lock
     ELSE IF ctl[t].pc \in {"rm_close", "rm_term", "rm_wait"}
       THEN /\ ctl' = [ctl EXCEPT ![t].pc = "rm_kill"]
            /\ lock' = lock
     ELSE /\ ctl' = [ctl EXCEPT ![t] = Exited]
          /\ lock' = "free"
  /\ UNCHANGED <<setup, harness, active_streams, keys, attrs, procs, ingest,
                 frame_no, webrtc_sent, completed, gen, registered, inflight,
                 queue>>

\* get_stream_stats reads the registry without the lock and changes nothing;
\* what it returns is recorded. t is the value of time.time() at line 342.
GetStreamStats(stream_id, t) ==
  /\ last' = Op("get_stream_stats", stream_id,
                {stream_id} \cap DOMAIN active_streams, NoFrame, {}, TRUE,
                get_stream_stats(active_streams, stream_id, t))
  /\ UNCHANGED <<setup, harness, active_streams, keys, attrs, procs, ingest,
                 frame_no, webrtc_sent, completed, gen, registered, lock, ctl,
                 inflight, queue>>

\* process_rtmp_stream with GSTREAMER_AVAILABLE: the pipeline is set PLAYING.
StartPipeline(stream_id) ==
  /\ gstreamer
  /\ ingest[stream_id] = "idle"
  /\ ingest' = [ingest EXCEPT ![stream_id] = "push"]
  /\ UNCHANGED <<setup, harness, active_streams, keys, attrs, procs, frame_no,
                 webrtc_sent, completed, gen, registered, lock, ctl, inflight,
                 queue>>

\* A variant whose open failure clears the registry.
OpenCapture_failure_clears(stream_id, opened) ==
  /\ ~gstreamer
  /\ ingest[stream_id] = "idle"
  /\ ingest' = [ingest EXCEPT ![stream_id] = IF opened THEN "pull" ELSE "idle"]
  /\ active_streams' = IF opened THEN active_streams ELSE << >>
  /\ keys' = IF opened THEN keys ELSE << >>
  /\ UNCHANGED <<setup, harness, attrs, procs, frame_no, webrtc_sent, completed,
                 gen, registered, lock, ctl, inflight, queue>>

\* process_with_opencv, lines 169-173: the capture opens, or the call returns.
OpenCapture(stream_id, opened) ==
  /\ ~gstreamer
  /\ ingest[stream_id] = "idle"
  /\ ingest' = [ingest EXCEPT ![stream_id] = IF opened THEN "pull" ELSE "idle"]
  /\ UNCHANGED <<setup, harness, active_streams, keys, attrs, procs, frame_no,
                 webrtc_sent, completed, gen, registered, lock, ctl, inflight,
                 queue>>

\* Lines 176-181: the loop reads a frame and awaits process_frame; it reads the
\* next one only when that call has returned and the check has passed.
PullRead(stream_id) ==
  /\ ingest[stream_id] = "pull"
  /\ inflight[stream_id] = << >>
  /\ Sum(frame_no) < MaxFrames
  /\ frame_no' = [frame_no EXCEPT ![stream_id] = @ + 1]
  /\ inflight' = [inflight EXCEPT ![stream_id] =
                    <<NewTask(Sample(stream_id))>>]
  /\ UNCHANGED <<setup, harness, active_streams, keys, attrs, procs, ingest,
                 webrtc_sent, completed, gen, registered, lock, ctl, queue>>

\* Lines 177-179 and 186-187: cap.read() returned no frame.
PullExhausted(stream_id) ==
  /\ ingest[stream_id] = "pull"
  /\ inflight[stream_id] = << >>
  /\ ingest' = [ingest EXCEPT ![stream_id] = "idle"]
  /\ UNCHANGED <<setup, harness, active_streams, keys, attrs, procs, frame_no,
                 webrtc_sent, completed, gen, registered, lock, ctl, inflight,
                 queue>>

\* Lines 137-147: the callback pulls the sample and creates a task for it. On
\* a thread without a running event loop create_task raises RuntimeError and
\* the frame is lost.
OnGstreamerFrame(stream_id, in_loop) ==
  /\ ingest[stream_id] = "push"
  /\ Sum(frame_no) < MaxFrames
  /\ frame_no' = [frame_no EXCEPT ![stream_id] = @ + 1]
  /\ queue' = IF in_loop
                THEN [queue EXCEPT ![stream_id] = Append(@, Sample(stream_id))]
                ELSE queue
  /\ UNCHANGED <<setup, harness, active_streams, keys, attrs, procs, ingest,
                 webrtc_sent, completed, gen, registered, lock, ctl, inflight>>

\* The event loop starts the oldest task.
RunTask(stream_id) ==
  /\ queue[stream_id] # << >>
  /\ EventLoopFree(stream_id)
  /\ inflight' = [inflight EXCEPT ![stream_id] =
                    Append(@, NewTask(Head(queue[stream_id])))]
  /\ queue' = [queue EXCEPT ![stream_id] = Tail(@)]
  /\ UNCHANGED <<setup, harness, active_streams, keys, attrs, procs, ingest,
                 frame_no, webrtc_sent, completed, gen, registered, lock, ctl>>

\* process_frame returns: the pull loop goes on to its check of line 183, a
\* task of the push variant is finished.
AfterFrame(stream_id, k) ==
  IF ingest[stream_id] = "pull"
    THEN [inflight EXCEPT ![stream_id][k].pc = "check"]
    ELSE [inflight EXCEPT ![stream_id] = RemoveAt(@, k)]

\* The call goes on with task as its state, or returns after the last sink.
Advance(stream_id, k, task) ==
  IF task.i > Len(task.outs)
    THEN AfterFrame(stream_id, k)
    ELSE [inflight EXCEPT ![stream_id][k] = task]

\* History: the frame is marked with the registration whose output list it
\* is sent to (the one current at line 239).
Stamp(frame, stream_id) == [frame EXCEPT !.reg = gen[stream_id]]

\* Lines 191 and 239: the effect chain, then the read of the output list.
FrameEffects(stream_id, k, faults) ==
  /\ k \in DOMAIN inflight[stream_id]
  /\ inflight[stream_id][k].pc = "effects"
  /\ \A f \in faults : f[1] \in {"raise", "ml"}
  /\ Applicable(faults, stream_id)
  /\ LET task == inflight[stream_id][k]
         fx == apply_effects(task.frame, config, models, faults)
         outs == IF stream_id \in DOMAIN active_streams
                   THEN active_streams[stream_id].outputs
                   ELSE << >>
     IN /\ inflight' = IF fx.ok
                         THEN Advance(stream_id, k,
                                      [task EXCEPT !.frame = Stamp(fx.frame, stream_id),
                                                   !.pc = "sink",
                                                   !.outs = outs, !.i = 1,
                                                   !.faults = faults])
                         ELSE AfterFrame(stream_id, k)
        /\ completed' = IF fx.ok /\ stream_id \in DOMAIN active_streams
                          THEN [completed EXCEPT ![stream_id] = @ + 1]
                          ELSE completed
  /\ UNCHANGED <<setup, harness, active_streams, keys, attrs, procs, ingest,
                 frame_no, webrtc_sent, gen, registered, lock, ctl, queue>>

\* Lines 241-247: the sink in turn of the output list read at line 239: all
\* of output_webrtc; of output_hls and output_dash the lines up to Popen
\* (259-273, 285-299).
FrameSink(stream_id, k, faults) ==
  /\ k \in DOMAIN inflight[stream_id]
  /\ inflight[stream_id][k].pc = "sink"
  /\ LET task == inflight[stream_id][k]
         kind == task.outs[task.i].type
         st == Dispatch(SinkState, task.outs[task.i], stream_id, task.frame,
                        faults)
     IN /\ \A f \in faults :
             /\ f[1] \in {"makedirs", "Popen", "imencode"}
             /\ f[2] = kind
             /\ f[1] = "Popen" => <<kind, stream_id>> \notin DOMAIN attrs
        /\ Cardinality(task.faults \cup faults) <= MaxFaults
        /\ Len(st.procs) <= MaxProcs
        /\ procs' = st.procs
        /\ webrtc_sent' = st.sent
        /\ inflight' =
             IF st.raised THEN AfterFrame(stream_id, k)
             ELSE IF st.next = "done"
               THEN Advance(stream_id, k,
                            [task EXCEPT !.i = @ + 1,
                                         !.faults = @ \cup faults])
             ELSE [inflight EXCEPT ![stream_id][k].pc = st.next,
                                   ![stream_id][k].pid = st.pid]
  /\ UNCHANGED <<setup, harness, active_streams, keys, attrs, ingest, frame_no,
                 completed, gen, registered, lock, ctl, queue>>

\* Line 274 (300): the process that Popen returned is tracked.
FrameSetattr(stream_id, k) ==
  /\ k \in DOMAIN inflight[stream_id]
  /\ inflight[stream_id][k].pc = "setattr"
  /\ LET task == inflight[stream_id][k]
         st == setattr_segmented(SinkState, task.outs[task.i].type, stream_id,
                                 task.pid)
     IN /\ attrs' = st.attrs
        /\ inflight' = [inflight EXCEPT ![stream_id][k].pc = st.next,
                                        ![stream_id][k].pid = 0]
  /\ UNCHANGED <<setup, harness, active_streams, keys, procs, ingest, frame_no,
                 webrtc_sent, completed, gen, registered, lock, ctl, queue>>

\* Lines 276-278 (302-304): the frame is written to the process the attribute
\* holds by now. A write the encoder does not read does not return.
FrameWrite(stream_id, k, faults) ==
  /\ k \in DOMAIN inflight[stream_id]
  /\ inflight[stream_id][k].pc = "write"
  /\ LET task == inflight[stream_id][k]
         kind == task.outs[task.i].type
         st == write_segmented(SinkState, kind, stream_id, task.frame, faults)
     IN /\ \A f \in faults : f[1] = "stall" /\ f[2] = kind
        /\ Cardinality(task.faults \cup faults) <= MaxFaults
        /\ procs' = st.procs
        /\ inflight' =
             IF st.blocked # 0
               THEN [inflight EXCEPT ![stream_id][k].pc = "blocked",
                                     ![stream_id][k].pid = st.blocked]
               ELSE Advance(stream_id, k,
                            [task EXCEPT !.pc = "sink", !.i = @ + 1,
                                         !.faults = @ \cup faults])
  /\ UNCHANGED <<setup, harness, active_streams, keys, attrs, ingest, frame_no,
                 webrtc_sent, completed, gen, registered, lock, ctl, queue>>

\* Lines 277-281 and 303-307: the encoder has exited, the blocked write raises
\* BrokenPipeError, which the sink catches.
WriteUnblocks(stream_id, k) ==
  /\ k \in DOMAIN inflight[stream_id]
  /\ inflight[stream_id][k].pc = "blocked"
  /\ ~procs[inflight[stream_id][k].pid].alive
  /\ inflight' = Advance(stream_id, k,
                         [inflight[stream_id][k] EXCEPT !.pc = "sink",
                                                        !.pid = 0, !.i = @ + 1])
  /\ UNCHANGED <<setup, harness, active_streams, keys, attrs, procs, ingest,
                 frame_no, webrtc_sent, completed, gen, registered, lock, ctl,
                 queue>>

\* Lines 183-184: the loop's check after the frame.
PullCheck(stream_id, k) ==
  /\ k \in DOMAIN inflight[stream_id]
  /\ inflight[stream_id][k].pc = "check"
  /\ inflight' = [inflight EXCEPT ![stream_id] = RemoveAt(@, k)]
  /\ ingest' = [ingest EXCEPT ![stream_id] =
                  IF stream_id \in DOMAIN active_streams THEN "pull" ELSE "idle"]
  /\ UNCHANGED <<setup, harness, active_streams, keys, attrs, procs, frame_no,
                 webrtc_sent, completed, gen, registered, lock, ctl, queue>>

\* An encoder process exits on its own; later writes to its input fail.
ProcessDies(pid) ==
  /\ procs[pid].alive
  /\ procs' = [procs EXCEPT ![pid].alive = FALSE]
  /\ UNCHANGED <<setup, harness, active_streams, keys, attrs, ingest, frame_no,
                 webrtc_sent, completed, gen, registered, lock, ctl, inflight,
                 queue>>

\* ---------------------------------------------------------- specifications
\* No call is in progress.
Quiet ==
  /\ \A t \in Threads : ctl[t].pc = "idle"
  /\ \A id \in StreamIds : inflight[id] = << >>

\* The record of a call no claim is about.
Other == Op("other", "none", {}, NoFrame, {}, TRUE, NotFound)

\* The record of a call that has started and not returned.
Pending(name, id, regs) ==
  [Op(name, id, regs, NoFrame, {}, FALSE, NotFound) EXCEPT !.done = FALSE]

\* What the step of lines 323-325 of thread t records of its remove_stream
\* call: whether it returned, and whether it raised.
RemoveRecord(t) ==
  last' = [last EXCEPT !.done = (ctl'[t].pc = "idle"), !.ok = ~ctl'[t].exc]

\* What a step of thread t records when it ends a call of remove_stream.
RemoveReturnRecord(t) ==
  last' = IF ctl'[t].pc = "idle"
            THEN [last EXCEPT !.done = TRUE, !.ok = TRUE]
            ELSE last

\* What a step of thread t records when it ends a call of shutdown.
ShutdownRecord(t) ==
  last' = IF ctl'[t].pc = "idle"
            THEN [last EXCEPT !.done = TRUE, !.ok = TRUE]
            ELSE last

\* What a step of task k of stream_id records when it ends process_frame:
\* the frame as the effect chain left it and the failures the call met.
FrameRecord(stream_id, k, faults) ==
  LET task == inflight[stream_id][k]
      fx == apply_effects(task.frame, config, models, faults)
      returned == \/ Len(inflight'[stream_id]) < Len(inflight[stream_id])
                  \/ inflight'[stream_id][k].pc = "check"
      regs == {stream_id} \cap DOMAIN active_streams
  IN last' = IF ~returned THEN last
             ELSE IF task.pc = "effects"
               THEN Op("process_frame", stream_id, regs,
                       IF fx.ok THEN Stamp(fx.frame, stream_id) ELSE task.frame,
                       faults,
                       fx.ok, NotFound)
               ELSE Op("process_frame", stream_id, regs, task.frame,
                       task.faults \cup faults, TRUE, NotFound)

\* The failures met when every encoder reads what is written to it.
SeqFaults == {F \in FaultChoices : \A f \in F : f[1] # "stall"}

\* The calls made one after the other by one caller: a call starts only when
\* no other call and no frame is in progress. The encoders read what is
\* written to them and exit on their own only between two calls.
Next ==
  \/ \E id \in StreamIds, c \in StreamConfigs, t \in AddTimes :
       /\ Quiet
       /\ AddStream(id, c.input, c.outputs, t)
       /\ last' = Other
  \/ \E id \in StreamIds :
       /\ Quiet
       /\ RemoveBegin(MainThread, id)
       /\ last' = Pending("remove_stream", id, {id} \cap DOMAIN active_streams)
  \/ RemoveTest(MainThread)
       /\ (IF ctl[MainThread].sd THEN UNCHANGED last
           ELSE RemoveRecord(MainThread))
  \/ RemoveNextAttr(MainThread)
       /\ (IF ctl[MainThread].sd THEN UNCHANGED last
           ELSE RemoveReturnRecord(MainThread))
  \/ \E raises \in BOOLEAN : RemoveClose(MainThread, raises) /\ UNCHANGED last
  \/ RemoveTerminate(MainThread) /\ UNCHANGED last
  \/ \E exits \in BOOLEAN : RemoveWait(MainThread, exits) /\ UNCHANGED last
  \/ RemoveKill(MainThread) /\ UNCHANGED last
  \/ RemoveDelattr(MainThread) /\ UNCHANGED last
  \/ /\ Quiet
     /\ ShutdownBegin(MainThread)
     /\ last' = [Pending("shutdown", "all", DOMAIN active_streams)
                 EXCEPT !.gens = gen]
  \/ ShutdownNext(MainThread) /\ ShutdownRecord(MainThread)
  \/ \E id \in StreamIds, t \in 0..MaxTime : Quiet /\ GetStreamStats(id, t)
  \/ \E id \in StreamIds :
       /\ Quiet
       /\ StartPipeline(id)
       /\ last' = Other
  \/ \E id \in StreamIds, opened \in BOOLEAN :
       /\ Quiet
       /\ OpenCapture(id, opened)
       /\ last' = IF opened THEN Other
                  ELSE Op("open_failed", id, {id} \cap DOMAIN active_streams,
                          NoFrame, {}, TRUE, NotFound)
  \/ \E id \in StreamIds :
       /\ Quiet
       /\ PullRead(id)
       /\ last' = Pending("process_frame", id, {id} \cap DOMAIN active_streams)
  \/ \E id \in StreamIds :
       /\ Quiet
       /\ PullExhausted(id)
       /\ last' = Op("source_exhausted", id, {id} \cap DOMAIN active_streams,
                     NoFrame, {}, TRUE, NotFound)
  \/ \E id \in StreamIds, in_loop \in BOOLEAN :
       /\ Quiet
       /\ OnGstreamerFrame(id, in_loop)
       /\ last' = Other
  \/ \E id \in StreamIds :
       /\ Quiet
       /\ RunTask(id)
       /\ last' = Pending("process_frame", id, {id} \cap DOMAIN active_streams)
  \/ \E id \in StreamIds, k \in 1..MaxFrames, faults \in SeqFaults :
       FrameEffects(id, k, faults) /\ FrameRecord(id, k, faults)
  \/ \E id \in StreamIds, k \in 1..MaxFrames, faults \in SeqFaults :
       FrameSink(id, k, faults) /\ FrameRecord(id, k, faults)
  \/ \E id \in StreamIds, k \in 1..MaxFrames :
       FrameSetattr(id, k) /\ FrameRecord(id, k, {})
  \/ \E id \in StreamIds, k \in 1..MaxFrames :
       FrameWrite(id, k, {}) /\ FrameRecord(id, k, {})
  \/ \E id \in StreamIds, k \in 1..MaxFrames :
       PullCheck(id, k) /\ UNCHANGED last
  \/ \E pid \in DOMAIN procs : Quiet /\ ProcessDies(pid) /\ UNCHANGED last

Spec == Init /\ [][Next]_vars

\* No failure but an encoder that does not read: the write into it blocks.
ConcFaults == {F \in FaultChoices : \A f \in F : f[1] = "stall"}

\* The streams registered: an rtmp input with an hls and a webrtc output.
ConcConfigs == {c \in StreamConfigs : c.input.type = "rtmp"}

\* All the frames come from one stream.
OneSource(stream_id) == \A id \in StreamIds \ {stream_id} : frame_no[id] = 0

\* The same steps, interleaved freely: calls from other threads, the second
\* signal and the encoders' own behaviour may fall between any two steps.
\* Every id is registered at most once, one stream produces frames, no stage
\* and no sink fails, and an encoder exits on its own only when a write into
\* it is blocked.
NextConc ==
  \/ \E id \in StreamIds, c \in ConcConfigs, t \in AddTimes :
       gen[id] = 0 /\ AddStream(id, c.input, c.outputs, t) /\ UNCHANGED last
  \/ \E t \in Threads, id \in StreamIds : RemoveBegin(t, id) /\ UNCHANGED last
  \/ \E t \in Threads : RemoveTest(t) /\ UNCHANGED last
  \/ \E t \in Threads : RemoveNextAttr(t) /\ UNCHANGED last
  \/ \E t \in Threads, raises \in BOOLEAN :
       RemoveClose(t, raises) /\ UNCHANGED last
  \/ \E t \in Threads : RemoveTerminate(t) /\ UNCHANGED last
  \/ \E t \in Threads, exits \in BOOLEAN :
       RemoveWait(t, exits) /\ UNCHANGED last
  \/ \E t \in Threads : RemoveKill(t) /\ UNCHANGED last
  \/ \E t \in Threads : RemoveDelattr(t) /\ UNCHANGED last
  \/ ShutdownBegin(MainThread) /\ UNCHANGED last
  \/ ShutdownNext(MainThread) /\ UNCHANGED last
  \/ Signal(MainThread) /\ UNCHANGED last
  \/ \E id \in StreamIds : StartPipeline(id) /\ UNCHANGED last
  \/ \E id \in StreamIds, opened \in BOOLEAN :
       OpenCapture(id, opened) /\ UNCHANGED last
  \/ \E id \in StreamIds : OneSource(id) /\ PullRead(id) /\ UNCHANGED last
  \/ \E id \in StreamIds : PullExhausted(id) /\ UNCHANGED last
  \/ \E id \in StreamIds, in_loop \in BOOLEAN :
       OneSource(id) /\ OnGstreamerFrame(id, in_loop) /\ UNCHANGED last
  \/ \E id \in StreamIds : RunTask(id) /\ UNCHANGED last
  \/ \E id \in StreamIds, k \in 1..MaxFrames :
       FrameEffects(id, k, {}) /\ UNCHANGED last
  \/ \E id \in StreamIds, k \in 1..MaxFrames :
       FrameSink(id, k, {}) /\ UNCHANGED last
  \/ \E id \in StreamIds, k \in 1..MaxFrames :
       FrameSetattr(id, k) /\ UNCHANGED last
  \/ \E id \in StreamIds, k \in 1..MaxFrames, faults \in ConcFaults :
       FrameWrite(id, k, faults) /\ UNCHANGED last
  \/ \E id \in StreamIds, k \in 1..MaxFrames :
       WriteUnblocks(id, k) /\ UNCHANGED last
  \/ \E id \in StreamIds, k \in 1..MaxFrames :
       PullCheck(id, k) /\ UNCHANGED last
  \/ \E pid \in DOMAIN procs :
       WriteInProgress(pid) /\ ProcessDies(pid) /\ UNCHANGED last

SpecConc == Init /\ [][NextConc]_vars

\* ------------------------------------------------- the effect-chain harness
InputFrames ==
  {[src |-> id, n |-> k, reg |-> 1, ops |-> << >>] : id \in StreamIds, k \in 1..MaxFrames}

\* setup_models, lines 86-90: a model is loaded only when the stage is enabled.
InitEffects ==
  /\ config \in AllConfigs
  /\ models \in SUBSET {"enhancement"}
  /\ "enhancement" \in models => config.ml_enhancement
  /\ gstreamer = FALSE
  /\ InitRegistry
  /\ fx_in \in InputFrames
  /\ fx_out = NoResult

ApplyEffects(faults) ==
  /\ Applicable(faults, fx_in.src)
  /\ fx_out' = [called |-> TRUE, faults |-> faults,
                result |-> apply_effects(fx_in, config, models, faults)]
  /\ UNCHANGED <<setup, active_streams, keys, attrs, procs, ingest, frame_no,
                 webrtc_sent, completed, gen, registered, last, fx_in, lock,
                 ctl, inflight, queue>>

NextInput(frame) ==
  /\ frame # fx_in
  /\ fx_in' = frame
  /\ fx_out' = NoResult
  /\ UNCHANGED <<setup, active_streams, keys, attrs, procs, ingest, frame_no,
                 webrtc_sent, completed, gen, registered, last, lock, ctl,
                 inflight, queue>>

NextEffects ==
  \/ \E faults \in FaultChoices : ApplyEffects(faults)
  \/ \E frame \in InputFrames : NextInput(frame)

SpecEffects == InitEffects /\ [][NextEffects]_vars
\* ------------------------------------------------------------------ claims
ProcsOf(stream_id) == {pid \in DOMAIN procs : procs[pid].stream = stream_id}

Tracked(stream_id) == {k \in ProcKindSet : <<k, stream_id>> \in DOMAIN attrs}

\* C1: for every registered stream, the frame_count reported by
\* get_stream_stats equals the number of frames of that stream that have
\* completed the effect chain since it was registered.
C1_FrameCountCountsFrames ==
  \A id \in DOMAIN active_streams :
    get_stream_stats(active_streams, id, 0).frame_count = completed[id]

\* C2: after remove_stream(id) returns for a registered id, id is not in the
\* registry, no encoder process of id is tracked, and every encoder process
\* ever spawned for id has been signalled and is not alive.
C2_RemoveTearsDownSinks ==
  (last.op = "remove_stream" /\ last.done /\ last.id \in last.regs) =>
     /\ last.ok
     /\ last.id \notin DOMAIN active_streams
     /\ Tracked(last.id) = {}
     /\ \A pid \in ProcsOf(last.id) :
          /\ procs[pid].signals # {}
          /\ ~procs[pid].alive
          /\ \A k \in DOMAIN attrs : attrs[k] # pid

\* A registered stream with both an hls and a dash encoder, each of which was
\* written to, has just been removed, one of the encoders by a forced kill.
C2_Witness ==
  /\ last.op = "remove_stream"
  /\ last.done
  /\ last.id \in last.regs
  /\ \E p, q \in ProcsOf(last.id) :
       /\ procs[p].kind = "hls" /\ procs[q].kind = "dash"
       /\ Len(procs[p].writes) > 0 /\ Len(procs[q].writes) > 0
       /\ "KILL" \in procs[p].signals
       /\ procs[q].signals = {"TERM"}

\* C3: remove_stream(id) for an id that is not registered returns at once,
\* raises nothing and changes neither the registry nor any tracked encoder
\* process nor anything delivered, also when it directly follows another
\* remove_stream(id).
C3_RemoveAbsentIsNoOp ==
  [][ (last'.op = "remove_stream" /\ last'.regs = {}
         /\ <<last, ctl>>' # <<last, ctl>>)
      => /\ UNCHANGED <<active_streams, keys, attrs, procs, webrtc_sent>>
         /\ ~ctl'[MainThread].exc
         /\ (last.op = "remove_stream" /\ ~last.done) =>
               (last'.done /\ last'.ok /\ lock' = "free") ]_vars

\* remove_stream(id) has just been called a second time in a row, for an id the
\* first call removed or found absent, while another stream has a live tracked
\* encoder.
C3_Witness ==
  /\ last.op = "remove_stream"
  /\ last.done
  /\ last.repeat
  /\ last.regs = {}
  /\ \E k \in DOMAIN attrs : k[2] # last.id /\ procs[attrs[k]].alive

\* Whether the frame of the last process_frame call reached the sink of kind k
\* of its stream; an encoder that is tracked but dead counts as failing itself.
Delivered(k) ==
  IF k = "webrtc"
    THEN /\ Len(webrtc_sent[last.id]) > 0
         /\ webrtc_sent[last.id][Len(webrtc_sent[last.id])] = last.frame
    ELSE /\ <<k, last.id>> \in DOMAIN attrs
         /\ LET process == procs[attrs[<<k, last.id>>]]
            IN process.alive =>
                 /\ Len(process.writes) > 0
                 /\ process.writes[Len(process.writes)] = last.frame

\* C4: when a frame of a registered stream is fanned out and a sink fails,
\* every configured sink that did not fail itself still receives the frame,
\* and the stream stays registered.
C4_SinkFailureIsolated ==
  (last.op = "process_frame" /\ last.done /\ last.ok /\ last.id \in last.regs) =>
     /\ last.id \in DOMAIN active_streams
     /\ \A i \in 1..Len(active_streams[last.id].outputs) :
          LET k == active_streams[last.id].outputs[i].type
          IN (\A f \in last.faults : f[2] # k) => Delivered(k)

\* C5: no frame is written into an encoder process that was spawned under an
\* earlier registration of the stream than the one the frame belongs to.
C5_NoWriteIntoOldProcess ==
  \A pid \in DOMAIN procs :
    \A i \in 1..Len(procs[pid].writes) :
      procs[pid].writes[i].reg = procs[pid].gen

\* C6: once the pull loop has exited because the source had no more frames,
\* the stream is not registered and none of its encoder processes is tracked.
C6_ExhaustionRemovesStream ==
  last.op = "source_exhausted" =>
     /\ last.id \notin DOMAIN active_streams
     /\ Tracked(last.id) = {}

\* C7: once ingestion has given up because the capture could not be opened,
\* get_stream_stats reports the stream as not found.
C7_OpenFailureUnregisters ==
  last.op = "open_failed" =>
     get_stream_stats(active_streams, last.id, 0) = NotFound

\* C8: get_stream_stats(id) returns not-found exactly when id is not
\* registered (by the history of add_stream, remove_stream and shutdown);
\* otherwise fps * duration = frame_count when duration > 0, fps is 0 when
\* duration <= 0, and the input kind and the output kinds, in registration
\* order, are those of the registration.
C8_StatsContract ==
  last.op = "get_stream_stats" =>
    LET r == last.stats
    IN /\ (r = NotFound) <=> (last.id \notin registered)
       /\ r # NotFound =>
            /\ r.found
            /\ r.stream_id = last.id
            /\ r.duration > 0 =>
                 (r.fps.den # 0 /\ r.fps.num * r.duration = r.frame_count * r.fps.den)
            /\ r.duration <= 0 => r.fps = [num |-> 0, den |-> 1]
            /\ r.input_type = active_streams[last.id].input.type
            /\ Len(r.output_types) = Len(active_streams[last.id].outputs)
            /\ \A i \in 1..Len(r.output_types) :
                 r.output_types[i] = active_streams[last.id].outputs[i].type

\* get_stream_stats has just answered for a stream that was removed and added
\* again, queried at the very time of its registration (duration 0).
C8_Witness ==
  /\ last.op = "get_stream_stats"
  /\ last.stats # NotFound
  /\ last.stats.duration = 0
  /\ gen[last.id] = 2
  /\ Len(last.stats.output_types) = 3

\* After shutdown() has returned the registry is empty and no encoder process
\* of a stream registered at the call is tracked or alive.
C9_AfterShutdown ==
  (last.op = "shutdown" /\ last.done) =>
     /\ last.ok
     /\ active_streams = << >>
     /\ \A id \in last.regs :
          /\ Tracked(id) = {}
          /\ \A pid \in ProcsOf(id) : ~procs[pid].alive

\* The steps of a shutdown() that directly follows a shutdown() raise nothing
\* and change nothing.
C9_SecondShutdown ==
  (ctl' # ctl /\ (ctl[MainThread].sd \/ ctl'[MainThread].sd)
     /\ last'.op = "shutdown" /\ last'.repeat)
    => /\ ~ctl'[MainThread].exc
       /\ UNCHANGED <<active_streams, keys, attrs, procs, webrtc_sent>>

\* C9: after shutdown() the registry is empty and no encoder process of a
\* stream registered at the call is tracked or alive; a shutdown() directly
\* after a shutdown() raises nothing and changes nothing.
C9_ShutdownIdempotent == []C9_AfterShutdown /\ [][C9_SecondShutdown]_vars

\* shutdown() has returned after it removed two registered streams, each with
\* an encoder process that it tore down.
C9_Witness ==
  /\ last.op = "shutdown"
  /\ last.done
  /\ Cardinality(last.regs) = 2
  /\ \E p, q \in DOMAIN procs :
       /\ procs[p].stream # procs[q].stream
       /\ procs[p].signals # {} /\ procs[q].signals # {}

\* C10: apply_effects returns the input frame with exactly the enabled stages
\* applied, in the order blur, edge detection, colour filter, enhancement (the
\* enhancement stage applies only with a loaded model and passes its input
\* through when it fails); with edge detection and colour filter alone the
\* result is ColorFilter(EdgeDetection(frame)), never the reverse.
C10_FixedStageOrder ==
  (fx_out.called /\ fx_out.result.ok) =>
    LET applied(s) == IF s = "ml_enhancement"
                        THEN config[s] /\ "enhancement" \in models
                             /\ <<"ml", "fail">> \notin fx_out.faults
                        ELSE config[s]
        out == fx_out.result.frame
    IN /\ out.src = fx_in.src /\ out.n = fx_in.n
       /\ out.ops = fx_in.ops \o SelectSeq(StageOrder, applied)
       /\ (config.edge_detection /\ config.color_filter /\ ~config.blur
             /\ ~applied("ml_enhancement")) =>
            /\ out = ColorFilter(EdgeDetection(fx_in))
            /\ out # EdgeDetection(ColorFilter(fx_in))

\* apply_effects has returned with edge detection, colour filter and the
\* enhancement all enabled and applied.
C10_Witness ==
  /\ fx_out.called
  /\ fx_out.result.ok
  /\ config.edge_detection /\ config.color_filter
  /\ Len(fx_out.result.frame.ops) >= 3

\* The registry entry of stream_id and its tracked encoder processes are the
\* same before and after the step.
SameStream(stream_id) ==
  /\ (stream_id \in DOMAIN active_streams) = (stream_id \in DOMAIN active_streams')
  /\ stream_id \in DOMAIN active_streams =>
       active_streams'[stream_id] = active_streams[stream_id]
  /\ \A k \in ProcKindSet :
       /\ (<<k, stream_id>> \in DOMAIN attrs) = (<<k, stream_id>> \in DOMAIN attrs')
       /\ <<k, stream_id>> \in DOMAIN attrs =>
            /\ attrs'[<<k, stream_id>>] = attrs[<<k, stream_id>>]
            /\ procs'[attrs[<<k, stream_id>>]] = procs[attrs[<<k, stream_id>>]]
  /\ webrtc_sent'[stream_id] = webrtc_sent[stream_id]
  /\ ingest'[stream_id] = ingest[stream_id]

\* C11: a source that cannot be opened for stream A changes nothing of any
\* other stream B: B's registry entry, its tracked encoder processes, the
\* frames already delivered for it and the position of its ingest loop are the
\* same before and after the failure, so B's frames go on being processed.
C11_OpenFailureIsolated ==
  [][ (last' # last /\ last'.op = "open_failed")
      => \A b \in StreamIds \ {last'.id} : SameStream(b) ]_vars

\* The source of one stream failed to open while another stream is registered,
\* is being pulled and has a live tracked encoder that received a frame.
C11_Witness ==
  /\ last.op = "open_failed"
  /\ \E b \in DOMAIN active_streams \ {last.id} :
       /\ ingest[b] = "pull"
       /\ \E k \in Tracked(b) :
            /\ procs[attrs[<<k, b>>]].alive
            /\ Len(procs[attrs[<<k, b>>]].writes) > 0

\* C14: when an enabled effect stage raises on a frame of a registered stream,
\* the failure is confined to that stage: process_frame still completes the
\* effect chain and the frame reaches the stream's WebRTC sink.
C14_StageFailureKeepsFrame ==
  (last.op = "process_frame" /\ last.done /\ last.id \in last.regs
     /\ \E f \in last.faults : f[1] = "raise")
  => /\ last.ok
     /\ \A i \in 1..Len(active_streams[last.id].outputs) :
          active_streams[last.id].outputs[i].type = "webrtc" =>
            /\ Len(webrtc_sent[last.id]) > 0
            /\ webrtc_sent[last.id][Len(webrtc_sent[last.id])].n = last.frame.n

\* C15: the pull loop submits a frame to process_frame only for a stream that
\* is registered at that moment: none after remove_stream has returned, none
\* when the loop was started for an id that is not registered.
C15_PullChecksBeforeSubmit ==
  (~gstreamer /\ last.op = "process_frame") => last.id \in last.regs

SegmentedKinds(stream_id) ==
  {k \in ProcKindSet :
     \E i \in 1..Len(active_streams[stream_id].outputs) :
        active_streams[stream_id].outputs[i].type = k}

\* At most one live encoder process per (stream, kind), every tracked process
\* is the one of its attribute's pair, and each process holds its frames in
\* the order the source produced them.
C16_OneLiveEncoder ==
  /\ \A p, q \in DOMAIN procs :
       (procs[p].alive /\ procs[q].alive /\ procs[p].kind = procs[q].kind
          /\ procs[p].stream = procs[q].stream) => p = q
  /\ \A key \in DOMAIN attrs :
       procs[attrs[key]].kind = key[1] /\ procs[attrs[key]].stream = key[2]
  /\ \A p \in DOMAIN procs :
       \A i, j \in 1..Len(procs[p].writes) :
          i < j => procs[p].writes[i].n < procs[p].writes[j].n

\* Once process_frame has returned for a frame of a registered stream that
\* met no failure, every segmented sink of the stream has a tracked encoder,
\* and the encoder (while it accepts writes) holds this frame as its last
\* write.
C16_FrameWritten ==
  (last.op = "process_frame" /\ last.done /\ last.ok /\ last.faults = {}
     /\ last.id \in last.regs /\ last.id \in DOMAIN active_streams)
  => \A k \in SegmentedKinds(last.id) :
       /\ <<k, last.id>> \in DOMAIN attrs
       /\ LET process == procs[attrs[<<k, last.id>>]]
          IN (process.alive /\ process.stdin = "open") =>
               /\ Len(process.writes) > 0
               /\ process.writes[Len(process.writes)] = last.frame

\* A step spawns at most one encoder, only for a pair that has no tracked
\* encoder; a pair that becomes tracked tracks a process spawned for it that
\* has received nothing; the encoder of a pair stays the same process for as
\* long as the pair is tracked, and what a process has received only grows.
C16_SpawnStep ==
  /\ Len(procs') <= Len(procs) + 1
  /\ \A key \in DOMAIN attrs \cap DOMAIN attrs' : attrs'[key] = attrs[key]
  /\ \A key \in DOMAIN attrs' \ DOMAIN attrs :
       /\ attrs'[key] \in DOMAIN procs
       /\ key = <<procs[attrs'[key]].kind, procs[attrs'[key]].stream>>
       /\ procs[attrs'[key]].alive
       /\ procs[attrs'[key]].writes = << >>
  /\ \A pid \in DOMAIN procs :
       /\ Len(procs'[pid].writes) >= Len(procs[pid].writes)
       /\ SubSeq(procs'[pid].writes, 1, Len(procs[pid].writes)) = procs[pid].writes
  /\ Len(procs') = Len(procs) + 1 =>
       LET pid == Len(procs')
       IN /\ <<procs'[pid].kind, procs'[pid].stream>> \notin DOMAIN attrs
          /\ procs'[pid].alive
          /\ procs'[pid].writes = << >>

\* C16: for a registered stream with a segmented sink whose spawn and writes
\* succeed, the frames spawn exactly one encoder process for the (stream, kind)
\* pair, on the first frame, and that process receives one write per frame, in
\* frame order; there are never two live encoder processes for one pair.
C16_OneEncoderPerPair ==
  []C16_OneLiveEncoder /\ []C16_FrameWritten /\ [][C16_SpawnStep]_vars

\* A tracked live encoder of a registered stream has received both frames of
\* the stream, and it is the only process ever spawned for its pair.
C16_Witness ==
  \E id \in DOMAIN active_streams :
    \E k \in Tracked(id) :
      LET pid == attrs[<<k, id>>]
      IN /\ procs[pid].alive
         /\ Len(procs[pid].writes) = 2
         /\ procs[pid].writes[1].n = 1 /\ procs[pid].writes[2].n = 2
         /\ \A q \in DOMAIN procs :
              (procs[q].kind = k /\ procs[q].stream = id) => q = pid

\* C17: when a write to a tracked encoder fails, the encoder is torn down and
\* is no longer tracked: after a frame of a registered stream that met no
\* injected fault, every encoder still tracked for a segmented sink of the
\* stream has taken this frame as its last write.
C17_FailedWriteUntracks ==
  (last.op = "process_frame" /\ last.done /\ last.ok /\ last.faults = {}
     /\ last.id \in last.regs /\ last.id \in DOMAIN active_streams)
  => \A k \in SegmentedKinds(last.id) \cap Tracked(last.id) :
       LET process == procs[attrs[<<k, last.id>>]]
       IN /\ Len(process.writes) > 0
          /\ process.writes[Len(process.writes)].n = last.frame.n

\* A step of thread t inside remove_stream.
RemoveStep(t) ==
  \/ RemoveTest(t)
  \/ RemoveNextAttr(t)
  \/ \E raises \in BOOLEAN : RemoveClose(t, raises)
  \/ RemoveTerminate(t)
  \/ \E exits \in BOOLEAN : RemoveWait(t, exits)
  \/ RemoveKill(t)
  \/ RemoveDelattr(t)

\* C18: remove_stream always terminates: a thread inside remove_stream holds
\* the lock and is never stopped: whatever the encoder does, the close, the
\* termination request and the wait of at most the timeout end, and the call
\* goes on to untrack the process and to release the lock.
C18_RemoveTerminates ==
  \A t \in Threads :
    ctl[t].pc \in {"rm_test", "rm_attr", "rm_close", "rm_term", "rm_wait",
                   "rm_kill", "rm_del"}
      => (lock = t /\ ENABLED RemoveStep(t))

\* C12: once remove_stream(id) and the process_frame call that was in flight
\* for id have both completed (no call was left by an exception), no encoder process of id is tracked or alive:
\* the teardown covers whatever the in-flight frame spawned.
C12_NoLeakedEncoder ==
  \A id \in StreamIds :
    (id \notin DOMAIN active_streams /\ inflight[id] = << >>
       /\ \A t \in Threads : ctl[t].id # id /\ ctl[t].pc # "exited")
    => /\ Tracked(id) = {}
       /\ \A pid \in ProcsOf(id) : ~procs[pid].alive

\* C13: no thread holds the registry lock while it closes the stdin of an
\* encoder process, terminates it, waits for it or kills it.
C13_NoLockAcrossTeardown ==
  \A t \in Threads :
    ctl[t].pc \in {"rm_close", "rm_term", "rm_wait", "rm_kill"} => lock # t

\* The frames a stream's sinks have received so far.
Received(stream_id) ==
  {webrtc_sent[stream_id][i] : i \in 1..Len(webrtc_sent[stream_id])}
    \cup UNION {{procs[pid].writes[i] : i \in 1..Len(procs[pid].writes)} :
                  pid \in ProcsOf(stream_id)}

\* C19: in both ingest variants the frames of a stream are processed one at a
\* time and in source order: at most one process_frame call of a stream has
\* started and not returned, it is for a later frame than every frame a sink
\* of the stream has received from an earlier call, the frames still waiting
\* are later ones, and every sink holds its frames in source order.
C19_StrictlySequential ==
  \A id \in StreamIds :
    /\ Len(inflight[id]) <= 1
    /\ \A k \in DOMAIN inflight[id] :
         /\ \A w \in Received(id) : w.n <= inflight[id][k].frame.n
         /\ \A j \in DOMAIN queue[id] : inflight[id][k].frame.n < queue[id][j].n
    /\ \A i, j \in DOMAIN queue[id] : i < j => queue[id][i].n < queue[id][j].n
    /\ \A i, j \in DOMAIN webrtc_sent[id] :
         i < j => webrtc_sent[id][i].n < webrtc_sent[id][j].n
    /\ \A pid \in ProcsOf(id) :
         \A i, j \in DOMAIN procs[pid].writes :
            i < j => procs[pid].writes[i].n < procs[pid].writes[j].n

\* In the push variant the second frame of a stream waits as a task while the
\* first one, already written to a sink, is still in process_frame.
C19_Witness ==
  \E id \in StreamIds :
    /\ ingest[id] = "push"
    /\ Len(inflight[id]) = 1
    /\ inflight[id][1].pc = "sink"
    /\ inflight[id][1].i > 1
    /\ inflight[id][1].frame \in Received(id)
    /\ queue[id] # << >>

====
